---- MODULE Spec2Model ----
(***************************************************************************)
(* Cooperative, cancellable JSON serialization: the entry points of the    *)
(* repository                                                              *)
(*   "bench"      asyncStringify                  (benchmark.js)           *)
(*   "serializer" AsyncJSONSerializer.serialize   (benchmark-async-only.js)*)
(*   "migration"  AsyncImplementation.stringifyAsync (migration-example.js)*)
(*   "demo"       serializeWithTimeout            (the timeout demo)       *)
(*   "fiber"      runWithFiber(fiberStringify)    (benchmark.js)           *)
(*   "yieldable"  asyncStringifyYieldable         (benchmark.js)           *)
(*   "legacy"     createFiberImplementation's incremental_json_stringify   *)
(*                                                (migration-example.js)   *)
(* as one state machine over an explicit recursion stack, together with an *)
(* EventLoopMonitor sampling the event loop.  The engine runs              *)
(* from one suspension to the next without interruption; the deadline      *)
(* timer's callback runs only while the engine is suspended or finished.   *)
(* Wall-clock time passes at any moment (Tick).                            *)
(***************************************************************************)
EXTENDS Integers, Sequences, FiniteSets, TLC

VARIABLES
  variant,       \* which engine is called
  obj,           \* the root value passed to the call
  timeoutMs,     \* the call's timeout
  yieldEveryMs,  \* time threshold of the yield policy
  yieldEveryOps, \* operation threshold of the yield policy
  pc,            \* the traversal: "idle", "run", "susp", "returned", "threw",
                 \* "yielded" (a fiber suspended with nothing to resume it)
  stack,         \* the active stringify calls, innermost last
  visited,       \* the WeakSet of composites
  written,       \* the composites of the input the engine has written to
  aborted,       \* controller.signal.aborted / aborted
  timerPending,  \* the deadline timer has been set and neither fired nor cleared
  now,           \* the clock (ms)
  startTime,     \* the clock when the call started
  lastYield,     \* lastYield
  operations,    \* callCount / operations / operationCount
  outcome,       \* the promise returned to the caller: "none", "text",
                 \* "undefined" (resolved with no text), "error"
  result,        \* the value the promise resolved with
  error,         \* the message of the error the promise rejected with
  settledAt,     \* the clock when the promise settled
  sinceYield,    \* checkpoints passed since the last suspension (or the start)
  monitor,       \* the EventLoopMonitor: interval, intervals, blocks, lastCheck;
                 \* due: when its setInterval timer ticks next; leaked: the
                 \* setInterval timers alive that this.interval names no more
  stats,         \* what the monitor's stop() returned last
  options,       \* what the caller supplied: the options of the serializer's
                 \* constructor, the timeout argument of the other engines
  other          \* the locals of a second serialize call on the same
                 \* serializer, while the variables above hold the first's

vars == <<variant, obj, timeoutMs, yieldEveryMs, yieldEveryOps, pc, stack,
          visited, written, aborted, timerPending, now, startTime, lastYield, operations,
          outcome, result, error, settledAt, sinceYield, monitor, stats, other, options>>

-----------------------------------------------------------------------------
(* Bounds of the model.  The thresholds of the code (100 calls, 5 ms, 100   *)
(* operations, every 10th element, 10000 characters, 5000 ms) are scaled    *)
(* down so that the inputs explored cross each of them.                     *)

MaxTime == 4               \* the clock stops at MaxTime
CHECK_INTERVAL == 2        \* benchmark.js: 100
DefaultYieldEveryMs == 1   \* 5
DefaultYieldEveryOps == 3  \* 100
LoopCheckEvery == 2        \* 10: the loops' extra checkpoint
ChunkSize == 2             \* 10000: chunk threshold and chunk length
ChunksPerYield == 2        \* 100000 / 10000
DefaultTimeoutMs == 3      \* 5000
MonitorPeriod == 1         \* 10: the period of the monitor's interval
BlockThreshold == 2        \* 20: a longer gap between two samples is a block

Variants == {"bench", "serializer", "migration", "demo", "fiber", "yieldable",
             "legacy"}

-----------------------------------------------------------------------------
(* Values.  A primitive is a record; a composite is a reference into the   *)
(* heap, so that two positions can hold the same array, object or date.    *)

Null == [t |-> "null"]
Undefined == [t |-> "undefined"]
Fn == [t |-> "function"]
Bool(b) == [t |-> "boolean", b |-> b]
Num(n) == [t |-> "number", n |-> n]
Str(s) == [t |-> "string", s |-> s]
Ref(id) == [t |-> "ref", id |-> id]

Arr(items) == [t |-> "arr", items |-> items, entries |-> <<>>, iso |-> ""]
Obj(entries) == [t |-> "obj", items |-> <<>>, entries |-> entries, iso |-> ""]
DateObj(iso) == [t |-> "date", items |-> <<>>, entries |-> <<>>, iso |-> iso]

\* UTF-16 code units: ordinary characters, the characters JSON escapes, and
\* the two halves of a surrogate pair.
HI == "D83D"
LO == "DE00"

\* The value a JavaScript function returns when it returns undefined instead
\* of text.
NoText == "<undefined>"
Sentinel == "\"[Circular]\""

\* The composites of the inputs, by identity.
TheHeap ==
  [id \in 1..13 |->
     CASE id = 1 -> Obj(<< <<(<<"a">>), Ref(2)>>, <<(<<"b">>), Str(<<"x", "\"">>)>> >>)
       [] id = 2 -> Arr(<<Num(1), Bool(TRUE), Null>>)
       [] id = 3 -> Obj(<< <<(<<"f">>), Fn>>, <<(<<"u">>), Undefined>>, <<(<<"n">>), Num(2)>> >>)
       [] id = 4 -> Arr(<<Fn, Undefined, Num(1)>>)
       [] id = 5 -> Arr(<<Ref(6), Ref(6)>>)
       [] id = 6 -> Obj(<< <<(<<"k">>), Num(1)>> >>)
       [] id = 7 -> Obj(<< <<(<<"n">>), Num(1)>>, <<(<<"self">>), Ref(7)>> >>)
       [] id = 8 -> Arr(<<Ref(9), Num(2)>>)
       [] id = 9 -> Obj(<< <<(<<"up">>), Ref(8)>> >>)
       [] id = 10 -> Arr(<<Ref(11), Ref(11)>>)
       [] id = 11 -> DateObj("2020-01-01T00:00:00.000Z")
       [] id = 12 -> Obj(<< <<(<<"a">>), Ref(13)>>,
                            <<(<<"b">>), Str(<<"x", "x", "x", "x">>)>> >>)
       [] id = 13 -> Arr(<<Num(1), Num(2), Num(3)>>)]

-----------------------------------------------------------------------------
(* Text.  Output text is a string; JSON.stringify of a primitive is        *)
(* modelled by what it does to each kind of value.                         *)

\* parts.join(','): an undefined element joins as the empty string.
RECURSIVE JoinFrom(_, _)
JoinFrom(parts, i) ==
  IF i > Len(parts) THEN ""
  ELSE (IF i > 1 THEN "," ELSE "")
       \o (IF parts[i] = NoText THEN "" ELSE parts[i])
       \o JoinFrom(parts, i + 1)

Join(parts) == JoinFrom(parts, 1)

\* One code unit escaped on its own.
EscapeUnit(u) ==
  CASE u = "\"" -> "\\\""
    [] u = "\\" -> "\\\\"
    [] u = "\n" -> "\\n"
    [] u = HI -> "\\ud83d"
    [] u = LO -> "\\ude00"
    [] OTHER -> u

\* The escaped body of a string: a high surrogate followed by a low one is a
\* character and is copied; a lone surrogate is escaped (well-formed
\* JSON.stringify).
RECURSIVE EscapeFrom(_, _)
EscapeFrom(s, i) ==
  IF i > Len(s) THEN ""
  ELSE IF s[i] = HI /\ i < Len(s) /\ s[i + 1] = LO
       THEN "<D83D><DE00>" \o EscapeFrom(s, i + 2)
       ELSE EscapeUnit(s[i]) \o EscapeFrom(s, i + 1)

\* JSON.stringify(string)
QuoteString(s) == "\"" \o EscapeFrom(s, 1) \o "\""

\* JSON.stringify(value) of a value that is not an object: undefined (no
\* text) for a function or undefined.
JsonPrimitive(v) ==
  CASE v.t = "null" -> "null"
    [] v.t = "boolean" -> (IF v.b THEN "true" ELSE "false")
    [] v.t = "number" -> ToString(v.n)
    [] v.t = "string" -> QuoteString(v.s)
    [] OTHER -> NoText

IsComposite(v) == v.t = "ref"
IsSkipped(v) == v.t \in {"undefined", "function"}

\* The reference serializer, JSON.stringify(value): it has no cycle check of
\* its own kind (on a cycle it throws a TypeError, here onCycle), and a
\* composite met twice outside its own subtree is serialized twice.
RECURSIVE ReferenceValue(_, _, _, _)
RECURSIVE ReferenceItems(_, _, _, _, _)
RECURSIVE ReferenceEntries(_, _, _, _, _)
ReferenceValue(h, v, path, onCycle) ==
  IF ~IsComposite(v) THEN JsonPrimitive(v)
  ELSE IF v.id \in path THEN onCycle
  ELSE LET o == h[v.id] IN
       CASE o.t = "date" -> "\"" \o o.iso \o "\""
         [] o.t = "arr" ->
              "[" \o Join(ReferenceItems(h, o.items, 1, path \cup {v.id}, onCycle)) \o "]"
         [] OTHER ->
              "{" \o Join(ReferenceEntries(h, o.entries, 1, path \cup {v.id}, onCycle)) \o "}"

ReferenceItems(h, items, i, path, onCycle) ==
  IF i > Len(items) THEN <<>>
  ELSE LET t == ReferenceValue(h, items[i], path, onCycle) IN
       <<(IF t = NoText THEN "null" ELSE t)>>
       \o ReferenceItems(h, items, i + 1, path, onCycle)

ReferenceEntries(h, entries, i, path, onCycle) ==
  IF i > Len(entries) THEN <<>>
  ELSE (IF IsSkipped(entries[i][2]) THEN <<>>
        ELSE <<QuoteString(entries[i][1]) \o ":"
               \o ReferenceValue(h, entries[i][2], path, onCycle)>>)
       \o ReferenceEntries(h, entries, i + 1, path, onCycle)

JSONstringify(h, v) == ReferenceValue(h, v, {}, "<TypeError>")

\* The composites reachable from a value, and whether one of them is met
\* again on its own path (a cycle) or at two positions (shared or cyclic).
Children(o) == [i \in 1..(Len(o.items) + Len(o.entries)) |->
                  IF i <= Len(o.items) THEN o.items[i]
                  ELSE o.entries[i - Len(o.items)][2]]

RECURSIVE CyclicFrom(_, _, _)
CyclicFrom(h, v, path) ==
  /\ IsComposite(v)
  /\ \/ v.id \in path
     \/ \E i \in DOMAIN Children(h[v.id]) :
          CyclicFrom(h, Children(h[v.id])[i], path \cup {v.id})

Cyclic(h, v) == CyclicFrom(h, v, {})

\* The number of positions at which composite id occurs below v (a position
\* under a cyclic edge is not followed).
RECURSIVE Occurrences(_, _, _, _)
RECURSIVE SumOccurrences(_, _, _, _, _)
Occurrences(h, v, id, path) ==
  IF ~IsComposite(v) THEN 0
  ELSE (IF v.id = id THEN 1 ELSE 0)
       + (IF v.id \in path THEN 0
          ELSE SumOccurrences(h, Children(h[v.id]), 1, id, path \cup {v.id}))

SumOccurrences(h, cs, i, id, path) ==
  IF i > Len(cs) THEN 0
  ELSE Occurrences(h, cs[i], id, path) + SumOccurrences(h, cs, i + 1, id, path)

\* No composite is referenced more than once.
TreeShaped(h, v) == \A id \in DOMAIN h : Occurrences(h, v, id, {}) <= 1


-----------------------------------------------------------------------------
(* The yield policy and the abort check of each engine's checkpoint.       *)

\* benchmark.js checkAndYield, and the replacer of fiberStringify with its
\* optionalPause: the clock is read on every CHECK_INTERVAL-th call only,
\* and callCount is never reset.
BenchShouldYield(count, elapsed, everyMs) ==
  count % CHECK_INTERVAL = 0 /\ elapsed > everyMs

\* Mutant of OpsShouldYield: the thresholds themselves already yield.
OpsShouldYieldAtThreshold(ops, elapsed, everyMs, everyOps) ==
  elapsed >= everyMs \/ ops >= everyOps

\* AsyncJSONSerializer, stringifyAsync and serializeWithTimeout: time or
\* operation count.
OpsShouldYield(ops, elapsed, everyMs, everyOps) ==
  elapsed > everyMs \/ ops > everyOps

ShouldYield(var, ops, elapsed, everyMs, everyOps) ==
  IF var \in {"bench", "fiber"} THEN BenchShouldYield(ops, elapsed, everyMs)
  ELSE OpsShouldYield(ops, elapsed, everyMs, everyOps)

\* The abort flag is tested before the suspension (serializer, demo) or
\* after it (bench, migration); fiberStringify tests nothing.
AbortCheckedFirst(var) == var \in {"serializer", "demo"}

\* Mutant of AbortCheckedLast: no engine tests the flag after its suspension.
AbortCheckedLastNowhere(var) == FALSE

AbortCheckedLast(var) == var \in {"bench", "migration"}

\* Mutant of OpsAfterResume: no engine resets its counter.
OpsKeptAfterResume(var, ops) == ops

\* The operation counter after a resume: reset, except callCount.
OpsAfterResume(var, ops) == IF var \in {"bench", "fiber"} THEN ops ELSE 0

\* The engines that keep a visited set; the ones whose loops have a
\* checkpoint of their own; the ones that clear their deadline timer (the
\* migration example and asyncStringifyYieldable race the serialization
\* against a timer they never clear).
\* Mutant of HasVisited: no engine consults a visited set.
HasVisitedNowhere(var) == FALSE

HasVisited(var) == var \in {"bench", "serializer", "migration", "legacy"}
HasLoopCheckpoint(var) == var \in {"serializer", "migration", "legacy"}
\* Mutant of ClearsTimer: no exit path clears the timer.
ClearsTimerNowhere(var) == FALSE

ClearsTimer(var) == var \notin {"migration", "yieldable"}

\* The engines that set a deadline timer: the fiber implementation of the
\* migration example has none.
HasTimer(var) == var # "legacy"

\* The engines whose suspension is the end of the call: Fiber.yield() in
\* optional_pause makes fiber.run() return, and incremental_json_stringify
\* returns result, which the fiber has not assigned.
ReturnsAtYield(var) == var = "legacy"

-----------------------------------------------------------------------------
(* The recursion stack.  A frame is one active call of stringify: "visit"  *)
(* before its entry checkpoint has passed, then "arr", "obj" or "str" (the *)
(* chunk loop of a long string) while its loop runs.  i is the loop index, *)
(* parts the texts collected, cp whether the loop's own checkpoint is due  *)
(* next, count the object loop's counter (in a chunk loop: the chunks      *)
(* escaped since the last checkpoint).                                     *)

Frame(k, v) == [k |-> k, v |-> v, i |-> 0, parts |-> <<>>, cp |-> FALSE, count |-> 0]

Top(stk) == stk[Len(stk)]
Pop(stk) == SubSeq(stk, 1, Len(stk) - 1)
SetTop(stk, f) == [stk EXCEPT ![Len(stk)] = f]

NeedsCheckpoint(f) == f.k = "visit" \/ f.cp

Min(a, b) == IF a < b THEN a ELSE b

\* A child's text arrives in the parent's loop: parts.push / entries.push,
\* then the loop's checkpoint when one is due, then the next iteration.
\* With no parent the text is the call's result.
\* Mutant of ReceiveInArray: a child's text is put in front of its siblings'.
ReceiveInArrayInFront(var, f, text) ==
  [f EXCEPT !.parts = IF var = "serializer" /\ text = NoText THEN @ ELSE <<text>> \o @,
            !.cp = HasLoopCheckpoint(var) /\ f.i % LoopCheckEvery = 0,
            !.i = @ + 1]

ReceiveInArray(var, f, text) ==
  [f EXCEPT !.parts = IF var = "serializer" /\ text = NoText THEN @
                      ELSE IF var = "fiber" /\ text = NoText THEN Append(@, "null")
                      ELSE Append(@, text),
            !.cp = HasLoopCheckpoint(var) /\ f.i % LoopCheckEvery = 0,
            !.i = @ + 1]

ReceiveInObject(var, h, f, text) ==
  LET key == h[f.v.id].entries[f.i + 1][1]
      entry == QuoteString(key) \o ":" \o (IF text = NoText THEN "undefined" ELSE text)
  IN [f EXCEPT !.parts = IF var \in {"serializer", "fiber"} /\ text = NoText THEN @
                         ELSE Append(@, entry),
               !.count = IF HasLoopCheckpoint(var) THEN @ + 1 ELSE @,
               !.cp = HasLoopCheckpoint(var) /\ (f.count + 1) % LoopCheckEvery = 0,
               !.i = @ + 1]

Deliver(var, h, stk, text) ==
  IF stk = <<>> THEN [stack |-> <<>>, done |-> TRUE, text |-> text]
  ELSE [stack |-> SetTop(stk, IF Top(stk).k = "arr"
                              THEN ReceiveInArray(var, Top(stk), text)
                              ELSE ReceiveInObject(var, h, Top(stk), text)),
        done |-> FALSE, text |-> ""]

\* The body of stringify after its entry checkpoint, for the call on top of
\* the stack: a text is returned to the parent, or the call becomes a loop.
\* In fiberStringify it is JSON.stringify serializing the value its replacer
\* returned: the replacer is called for every element and property, and a
\* date arrives as its text.
VisitedAfter(var, h, v, vis) ==
  IF HasVisited(var) /\ IsComposite(v) /\ v.id \notin vis THEN vis \cup {v.id} ELSE vis

IsChunked(var, v) == var = "bench" /\ v.t = "string" /\ Len(v.s) > ChunkSize

Body(var, h, stk, vis) ==
  LET v == Top(stk).v
      rest == Pop(stk)
  IN IF v.t = "null" \/ (v.t = "undefined" /\ var # "fiber")
     THEN Deliver(var, h, rest, "null")
     ELSE IF ~IsComposite(v)
     THEN IF IsChunked(var, v)
          THEN [stack |-> Append(rest, [Frame("str", v) EXCEPT !.parts = <<"\"">>]),
                done |-> FALSE, text |-> ""]
          ELSE Deliver(var, h, rest, JsonPrimitive(v))
     ELSE IF HasVisited(var) /\ v.id \in vis THEN Deliver(var, h, rest, Sentinel)
     ELSE IF var \in {"serializer", "fiber"} /\ h[v.id].t = "date"
          THEN Deliver(var, h, rest, "\"" \o h[v.id].iso \o "\"")
     ELSE [stack |-> Append(rest, Frame(IF h[v.id].t = "arr" THEN "arr" ELSE "obj", v)),
           done |-> FALSE, text |-> ""]

\* What a checkpoint that has passed returns to: the body of the call, or
\* the loop it belongs to.
Continue(var, h, stk, vis) ==
  IF Top(stk).k = "visit" THEN Body(var, h, stk, vis)
  ELSE [stack |-> SetTop(stk, [Top(stk) EXCEPT !.cp = FALSE,
                                               !.count = IF Top(stk).k = "str" THEN 0 ELSE @]),
        done |-> FALSE, text |-> ""]

ContinueVisited(var, h, stk, vis) ==
  IF Top(stk).k = "visit" THEN VisitedAfter(var, h, Top(stk).v, vis) ELSE vis

\* One iteration of the loop on top of the stack.
LoopStep(var, h, stk) ==
  LET f == Top(stk)
      o == h[f.v.id]
  IN CASE f.k = "arr" ->
            IF f.i < Len(o.items)
            THEN [stack |-> Append(stk, Frame("visit", o.items[f.i + 1])),
                  done |-> FALSE, text |-> ""]
            ELSE Deliver(var, h, Pop(stk), "[" \o Join(f.parts) \o "]")
       [] f.k = "obj" ->
            IF f.i < Len(o.entries)
            THEN IF IsSkipped(o.entries[f.i + 1][2]) /\ var # "fiber"
                 THEN [stack |-> SetTop(stk,
                          [f EXCEPT !.i = @ + 1,
                                    !.count = IF var = "serializer" THEN @ + 1 ELSE @,
                                    !.cp = var = "serializer"
                                           /\ (f.count + 1) % LoopCheckEvery = 0]),
                       done |-> FALSE, text |-> ""]
                 ELSE [stack |-> Append(stk, Frame("visit", o.entries[f.i + 1][2])),
                       done |-> FALSE, text |-> ""]
            ELSE Deliver(var, h, Pop(stk), "{" \o Join(f.parts) \o "}")

StringLoopStep(var, h, stk) ==
  LET f == Top(stk)
      s == f.v.s
  IN IF f.i < Len(s)
     THEN [stack |-> SetTop(stk,
              [f EXCEPT !.parts = <<@[1] \o EscapeFrom(SubSeq(s, f.i + 1,
                                                  Min(f.i + ChunkSize, Len(s))), 1)>>,
                        !.count = @ + 1,
                        !.cp = f.i % (ChunkSize * ChunksPerYield) = 0 /\ f.i > 0,
                        !.i = @ + ChunkSize]),
           done |-> FALSE, text |-> ""]
     ELSE Deliver(var, h, Pop(stk), f.parts[1] \o "\"")


-----------------------------------------------------------------------------
(* The inputs and options explored.                                        *)

Inputs ==
  {Ref(1), Ref(3), Ref(4), Ref(5), Ref(7), Ref(8), Ref(10), Ref(11),
   Str(<<"a", HI, LO>>), Str(<<HI, LO, "a", "\"">>), Str(<<"\\">>), Fn,
   Ref(12), Str(<<"x", "x", "x", "x", "x", "x">>)}

\* The demo engine has no visited set: a cyclic input would recurse until
\* the deadline, so it is given the acyclic inputs.  The library behind
\* asyncStringifyYieldable is not part of the repository: one input.
InputsOf(var) ==
  CASE var = "demo" -> {v \in Inputs : ~Cyclic(TheHeap, v)}
    [] var = "yieldable" -> {Ref(1)}
    [] var \in {"migration", "fiber", "legacy"} -> Inputs \ {Ref(12)}
    [] OTHER -> Inputs

\* options.x || default
OptionOr(opts, name, default) ==
  IF name \in DOMAIN opts /\ opts[name] # 0 THEN opts[name] ELSE default

OptionSets == {[timeoutMs |-> 1], [timeoutMs |-> 2, yieldEveryOps |-> 1],
               [timeoutMs |-> 0, yieldEveryMs |-> 0, yieldEveryOps |-> 0]}

TimeoutsOf(var) ==
  IF var \in {"migration", "legacy"} THEN {DefaultTimeoutMs} ELSE {1, DefaultTimeoutMs}

\* The input as it is now: a composite the engine has written to holds one
\* more property or element than it did when the call started.
Marked(o) ==
  CASE o.t = "obj" -> [o EXCEPT !.entries = @ \o << <<(<<"v">>), Bool(TRUE)>> >>]
    [] o.t = "arr" -> [o EXCEPT !.items = @ \o <<Bool(TRUE)>>]
    [] OTHER -> [o EXCEPT !.iso = ""]

HeapNow(w) == [id \in DOMAIN TheHeap |->
                 IF id \in w THEN Marked(TheHeap[id]) ELSE TheHeap[id]]

\* Mutant of WritesOfVisit: stringify marks the composite it enters.
WritesMarkingVisited(var, v) == IF IsComposite(v) THEN {v.id} ELSE {}

\* What a call of stringify writes to its value: nothing.  It reads it
\* (typeof, Array.isArray, for-of, Object.entries, instanceof) and adds it to
\* the WeakSet, which does not touch the value.
WritesOfVisit(var, v) == {}

\* The monitor before start() and the interval callback's test of a gap.
NewMonitor(t) == [interval |-> FALSE, intervals |-> 0, blocks |-> <<>>,
                  lastCheck |-> t, due |-> 0, leaked |-> 0, leakedDue |-> 0]

\* Mutant of IsBlock: a gap equal to the threshold is a block too.
IsBlockAtThreshold(elapsed, threshold) == elapsed >= threshold

IsBlock(elapsed, threshold) == elapsed > threshold

RECURSIVE MaxOf(_, _)
MaxOf(m, xs) == IF xs = <<>> THEN m
                ELSE MaxOf(IF Head(xs) > m THEN Head(xs) ELSE m, Tail(xs))

\* No second call has been made.
NoCall ==
  [call |-> 0, obj |-> Null, pc |-> "none", stack |-> <<>>, visited |-> {},
   aborted |-> FALSE, timerPending |-> FALSE, startTime |-> 0, lastYield |-> 0,
   operations |-> 0, outcome |-> "none", result |-> "", error |-> "",
   settledAt |-> 0, sinceYield |-> 0]

Init ==
  /\ variant \in Variants
  /\ obj \in InputsOf(variant)
  /\ IF variant = "serializer"
     THEN /\ options \in OptionSets
          /\ timeoutMs = OptionOr(options, "timeoutMs", DefaultTimeoutMs)
          /\ yieldEveryMs = OptionOr(options, "yieldEveryMs", DefaultYieldEveryMs)
          /\ yieldEveryOps = OptionOr(options, "yieldEveryOps", DefaultYieldEveryOps)
     ELSE /\ timeoutMs \in TimeoutsOf(variant)
          /\ options = [timeoutMs |-> timeoutMs]
          /\ yieldEveryMs = DefaultYieldEveryMs
          /\ yieldEveryOps = DefaultYieldEveryOps
  /\ pc = "idle"
  /\ stack = <<>>
  /\ visited = {}
  /\ written = {}
  /\ aborted = FALSE
  /\ timerPending = FALSE
  /\ now = 0
  /\ startTime = 0
  /\ lastYield = 0
  /\ operations = 0
  /\ outcome = "none"
  /\ result = ""
  /\ error = ""
  /\ settledAt = 0
  /\ sinceYield = 0
  /\ monitor = NewMonitor(0)
  /\ stats = <<>>
  /\ other = NoCall

-----------------------------------------------------------------------------
(* The operations.                                                         *)

\* The call: the controller and its timer are set up, the counters are
\* initialised and stringify(obj) is entered.  asyncStringifyYieldable hands
\* the value to the yieldable-json library and awaits the race.
Start ==
  /\ pc = "idle"
  /\ IF variant = "yieldable"
     THEN pc' = "susp" /\ stack' = <<>>
     ELSE pc' = "run" /\ stack' = <<Frame("visit", obj)>>
  /\ visited' = {}
  /\ aborted' = FALSE
  /\ timerPending' = HasTimer(variant)
  /\ startTime' = now
  /\ lastYield' = now
  /\ operations' = 0
  /\ sinceYield' = 0
  /\ UNCHANGED <<other, options, variant, obj, timeoutMs, yieldEveryMs, yieldEveryOps, now,
                 written, outcome, result, error, settledAt, monitor, stats>>

\* Mutant of Proceed: the fiber's function resolves the promise whenever fn
\* has returned, whatever has happened to the promise before.
ProceedSettlingAgain(e) ==
  /\ stack' = e.stack
  /\ IF e.done
     THEN /\ pc' = "returned"
          /\ timerPending' = (timerPending /\ ~ClearsTimer(variant))
          /\ outcome' = IF e.text = NoText THEN "undefined" ELSE "text"
          /\ result' = e.text
          /\ settledAt' = now
     ELSE /\ pc' = "run"
          /\ UNCHANGED <<timerPending, outcome, result, settledAt>>
  /\ UNCHANGED error

\* The traversal leaves the checkpoint or loop step with the effect e: it
\* goes on, or stringify(obj) has returned and the call resolves (try
\* block: clearTimeout, return result; the race of the migration example
\* resolves unless the timeout has rejected it already, and runWithFiber
\* resolves unless timedOut).
Proceed(e) ==
  /\ stack' = e.stack
  /\ IF e.done
     THEN /\ pc' = "returned"
          /\ timerPending' = (timerPending /\ ~ClearsTimer(variant))
          /\ IF outcome = "none"
             THEN /\ outcome' = IF e.text = NoText THEN "undefined" ELSE "text"
                  /\ result' = e.text
                  /\ settledAt' = now
             ELSE UNCHANGED <<outcome, result, settledAt>>
     ELSE /\ pc' = "run"
          /\ UNCHANGED <<timerPending, outcome, result, settledAt>>
  /\ UNCHANGED error

\* Mutant of Throw: the catch block resolves the call with the text collected
\* so far by the innermost loop.
ThrowReturningPartialText(err) ==
  /\ pc' = "returned"
  /\ stack' = <<>>
  /\ timerPending' = (timerPending /\ ~ClearsTimer(variant))
  /\ IF outcome = "none"
     THEN outcome' = "text" /\ result' = Join(Top(stack).parts) /\ settledAt' = now
     ELSE UNCHANGED <<outcome, result, settledAt>>
  /\ UNCHANGED <<visited, written, error>>

\* The messages of the errors: the one a checkpoint throws when it finds
\* the abort flag set, the one a timeout callback rejects with, and the
\* TypeError of JSON.stringify.
AbortMessage(var, ms) ==
  CASE var = "bench" -> "Async timeout after " \o ToString(ms) \o "ms"
    [] var = "serializer" -> "Serialization aborted after timeout"
    [] var = "migration" -> "Operation aborted"
    [] OTHER -> "Operation cancelled due to timeout"

TimeoutMessage(var, ms) ==
  CASE var = "fiber" -> "Fiber timeout after " \o ToString(ms) \o "ms"
    [] var = "yieldable" -> "Yieldable-json timeout after " \o ToString(ms) \o "ms"
    [] OTHER -> "Timeout after " \o ToString(ms) \o "ms"

CircularMessage == "TypeError: Converting circular structure to JSON"

\* A checkpoint throws the abort error, or JSON.stringify its TypeError:
\* every enclosing await rethrows, the catch block clears the timer and the
\* call rejects (unless it has been rejected already).
Throw(err) ==
  /\ pc' = "threw"
  /\ stack' = <<>>
  /\ timerPending' = (timerPending /\ ~ClearsTimer(variant))
  /\ IF outcome = "none"
     THEN outcome' = "error" /\ error' = err /\ settledAt' = now
     ELSE UNCHANGED <<outcome, error, settledAt>>
  /\ UNCHANGED <<result, visited, written>>

\* JSON.stringify (fiberStringify) meets a composite that it is serializing
\* already.
ThrowsTypeError(var, stk) ==
  /\ var = "fiber"
  /\ Top(stk).k = "visit"
  /\ IsComposite(Top(stk).v)
  /\ \E i \in DOMAIN stk : stk[i].k \in {"arr", "obj"} /\ stk[i].v = Top(stk).v

\* What follows a checkpoint that has passed.
AfterCheckpoint ==
  IF ThrowsTypeError(variant, stack)
  THEN Throw(CircularMessage)
  ELSE /\ Proceed(Continue(variant, HeapNow(written), stack, visited))
       /\ visited' = ContinueVisited(variant, HeapNow(written), stack, visited)
       /\ written' = IF Top(stack).k = "visit"
                     THEN written \cup WritesOfVisit(variant, Top(stack).v)
                     ELSE written

\* checkAndYield / yieldControl / the replacer up to its suspension: at the
\* entry of stringify, or in a loop.
Checkpoint ==
  /\ pc = "run"
  /\ stack # <<>>
  /\ NeedsCheckpoint(Top(stack))
  /\ operations' = operations + 1
  /\ IF AbortCheckedFirst(variant) /\ aborted
     THEN Throw(AbortMessage(variant, timeoutMs)) /\ UNCHANGED sinceYield
     ELSE IF ShouldYield(variant, operations + 1, now - lastYield, yieldEveryMs, yieldEveryOps)
     THEN /\ pc' = "susp"
          /\ sinceYield' = 0
          /\ IF ReturnsAtYield(variant) /\ outcome = "none"
             THEN outcome' = "undefined" /\ result' = NoText /\ settledAt' = now
             ELSE UNCHANGED <<outcome, result, settledAt>>
          /\ UNCHANGED <<stack, visited, written, timerPending, error>>
     ELSE IF AbortCheckedLast(variant) /\ aborted
     THEN Throw(AbortMessage(variant, timeoutMs)) /\ UNCHANGED sinceYield
     ELSE AfterCheckpoint /\ sinceYield' = sinceYield + 1
  /\ UNCHANGED <<other, options, variant, obj, timeoutMs, yieldEveryMs, yieldEveryOps, aborted,
                 now, startTime, lastYield, monitor, stats>>

\* Mutant of Resume: the continuation starts with a fresh abort flag.
ResumeClearingAbort ==
  /\ pc = "susp"
  /\ variant \notin {"yieldable", "legacy"}
  /\ lastYield' = now
  /\ operations' = OpsAfterResume(variant, operations)
  /\ aborted' = FALSE
  /\ AfterCheckpoint
  /\ UNCHANGED <<other, options, variant, obj, timeoutMs, yieldEveryMs, yieldEveryOps,
                 now, startTime, sinceYield, monitor, stats>>

\* Mutant of Resume: the promise of the suspension is never resolved.
ResumeNeverScheduled ==
  /\ pc = "susp"
  /\ FALSE
  /\ UNCHANGED vars

\* The setImmediate continuation: the rest of the suspended checkpoint, and
\* what follows it up to the next checkpoint.
Resume ==
  /\ pc = "susp"
  /\ variant \notin {"yieldable", "legacy"}
  /\ lastYield' = now
  /\ operations' = OpsAfterResume(variant, operations)
  /\ IF AbortCheckedLast(variant) /\ aborted
     THEN Throw(AbortMessage(variant, timeoutMs))
     ELSE AfterCheckpoint
  /\ UNCHANGED <<other, options, variant, obj, timeoutMs, yieldEveryMs, yieldEveryOps, aborted,
                 now, startTime, sinceYield, monitor, stats>>

\* One iteration of an array, object or chunk loop.
Advance ==
  /\ pc = "run"
  /\ stack # <<>>
  /\ ~NeedsCheckpoint(Top(stack))
  /\ Proceed(IF Top(stack).k = "str" THEN StringLoopStep(variant, HeapNow(written), stack)
             ELSE LoopStep(variant, HeapNow(written), stack))
  /\ UNCHANGED <<other, options, variant, obj, timeoutMs, yieldEveryMs, yieldEveryOps, visited, written,
                 aborted, now, startTime, lastYield, operations, sinceYield,
                 monitor, stats>>

\* yieldable-json calls back with the text: the first promise of the race
\* resolves, and asyncStringifyYieldable returns the text unless the race is
\* lost already.
LibraryCallback ==
  /\ variant = "yieldable"
  /\ pc = "susp"
  /\ pc' = "returned"
  /\ IF outcome = "none"
     THEN /\ outcome' = "text"
          /\ result' = JSONstringify(HeapNow(written), obj)
          /\ settledAt' = now
     ELSE UNCHANGED <<outcome, result, settledAt>>
  /\ UNCHANGED <<other, options, variant, obj, timeoutMs, yieldEveryMs, yieldEveryOps, stack,
                 visited, written, aborted, timerPending, now, startTime, lastYield,
                 operations, error, sinceYield, monitor, stats>>

\* Fiber.current in a callback of the event loop: the fiber that is
\* running, and none is: the fiber that called setImmediate has yielded and
\* the callback is not run by a fiber.
CurrentFiber(p) == FALSE

\* The setImmediate callback of optional_pause: if (Fiber.current)
\* Fiber.current.run().  The rest of the suspended optional_pause runs when
\* there is a current fiber; otherwise the callback does nothing and the
\* fiber stays suspended with nothing scheduled to resume it.
ImmediateCallback ==
  /\ variant = "legacy"
  /\ pc = "susp"
  /\ IF CurrentFiber(pc)
     THEN /\ lastYield' = now
          /\ operations' = OpsAfterResume(variant, operations)
          /\ AfterCheckpoint
     ELSE /\ pc' = "yielded"
          /\ UNCHANGED <<lastYield, operations, stack, visited, written,
                         timerPending, outcome, result, error, settledAt>>
  /\ UNCHANGED <<other, options, variant, obj, timeoutMs, yieldEveryMs, yieldEveryOps, aborted,
                 now, startTime, sinceYield, monitor, stats>>

\* Mutant of EventLoopTurn: a callback runs whatever the engine is doing.
EventLoopTurnAlways(p) == TRUE

\* The event loop runs a timer or interval callback only when no JavaScript
\* is running: the traversal is awaiting its setImmediate, has finished or
\* has not started.  Between two checkpoints the engine awaits promises
\* only, which does not return to the event loop.
EventLoopTurn(p) == p # "run"

\* The deadline timer's callback.  It is a task of the event loop: it runs
\* when the timer is due and the engine is suspended or has finished.  The
\* callbacks of runWithFiber and of the two races also reject.
TimerFire ==
  /\ timerPending
  /\ now >= startTime + timeoutMs
  /\ EventLoopTurn(pc)
  /\ aborted' = TRUE
  /\ timerPending' = FALSE
  /\ IF variant \in {"migration", "fiber", "yieldable"} /\ outcome = "none"
     THEN /\ outcome' = "error"
          /\ error' = TimeoutMessage(variant, timeoutMs)
          /\ settledAt' = now
     ELSE UNCHANGED <<outcome, error, settledAt>>
  /\ UNCHANGED <<other, options, variant, obj, timeoutMs, yieldEveryMs, yieldEveryOps, pc, stack,
                 visited, written, now, startTime, lastYield, operations, result,
                 sinceYield,
                 monitor, stats>>

\* EventLoopMonitor.start(), before the call.
MonitorStart ==
  /\ pc = "idle"
  /\ variant \in {"bench", "serializer"}
  /\ ~monitor.interval
  /\ stats = <<>>
  /\ monitor' = [NewMonitor(now) EXCEPT !.interval = TRUE, !.due = now + MonitorPeriod]
  /\ UNCHANGED <<other, options, variant, obj, timeoutMs, yieldEveryMs, yieldEveryOps, pc, stack,
                 visited, written, aborted, timerPending, now, startTime, lastYield,
                 operations, outcome, result, error, settledAt, sinceYield, stats>>

\* The monitor's interval callback: a task of the event loop, as the
\* deadline timer's.
MonitorTick ==
  /\ monitor.interval
  /\ now >= monitor.due
  /\ EventLoopTurn(pc)
  /\ LET elapsed == now - monitor.lastCheck
     IN monitor' = [monitor EXCEPT
                      !.blocks = IF IsBlock(elapsed, BlockThreshold)
                                 THEN Append(@, elapsed) ELSE @,
                      !.lastCheck = now,
                      !.intervals = @ + 1,
                      !.due = now + MonitorPeriod]
  /\ UNCHANGED <<other, options, variant, obj, timeoutMs, yieldEveryMs, yieldEveryOps, pc, stack,
                 visited, written, aborted, timerPending, now, startTime, lastYield,
                 operations, outcome, result, error, settledAt, sinceYield, stats>>

\* EventLoopMonitor.stop(), after the call has settled.
MonitorStop ==
  /\ pc \in {"returned", "threw"}
  /\ monitor.interval
  /\ monitor' = [monitor EXCEPT !.interval = FALSE]
  /\ stats' = <<[intervals |-> monitor.intervals,
                 maxBlock |-> MaxOf(0, monitor.blocks),
                 blockCount |-> Len(monitor.blocks),
                 blocks |-> monitor.blocks]>>
  /\ UNCHANGED <<other, options, variant, obj, timeoutMs, yieldEveryMs, yieldEveryOps, pc, stack,
                 visited, written, aborted, timerPending, now, startTime, lastYield,
                 operations, outcome, result, error, settledAt, sinceYield>>

\* A millisecond passes.
Tick ==
  /\ now < MaxTime
  /\ pc \in {"run", "susp"} \/ timerPending \/ (monitor.interval /\ pc # "idle")
  /\ now' = now + 1
  /\ UNCHANGED <<other, options, variant, obj, timeoutMs, yieldEveryMs, yieldEveryOps, pc, stack,
                 visited, written, aborted, timerPending, startTime, lastYield, operations,
                 outcome, result, error, settledAt, sinceYield, monitor, stats>>

Next ==
  \/ Start \/ Checkpoint \/ Resume \/ Advance \/ LibraryCallback \/ TimerFire
  \/ ImmediateCallback
  \/ MonitorStart \/ MonitorTick \/ MonitorStop \/ Tick

Spec == Init /\ [][Next]_vars

\* The scheduler: code that is running goes on running (the checkpoints and
\* the loop steps), and the event loop eventually runs every continuation
\* that setImmediate has scheduled and every timer that is due.
FairSpec ==
  /\ Spec
  /\ WF_vars(Checkpoint)
  /\ WF_vars(Advance)
  /\ WF_vars(Resume)
  /\ WF_vars(TimerFire)

-----------------------------------------------------------------------------
(* Two overlapping calls of serialize on one AsyncJSONSerializer.  The      *)
(* options are fields of the serializer; the controller, the timer, the    *)
(* start time, the counters and the WeakSet are locals of a call.  The      *)
(* variables of the traversal hold the call the event loop is serving and  *)
(* `other` holds the locals of the call that is waiting.                   *)

\* The locals of the call the variables hold, as call number n.
ThisCall(n) ==
  [call |-> n, obj |-> obj, pc |-> pc, stack |-> stack, visited |-> visited,
   aborted |-> aborted, timerPending |-> timerPending, startTime |-> startTime,
   lastYield |-> lastYield, operations |-> operations, outcome |-> outcome,
   result |-> result, error |-> error, settledAt |-> settledAt,
   sinceYield |-> sinceYield]

\* The values the second call is made with: the same object, and another.
OverlapInputs(o) == {o, Ref(5)}

\* Mutant of NewWeakSet: the identity set is a field of the serializer.
SerializerWeakSet(vis) == vis

\* visited = new WeakSet(): the default of stringify's second parameter,
\* evaluated by the top-level stringify(obj) of each call.
NewWeakSet(vis) == {}

\* serialize(o) is called while the first call awaits its setImmediate: it
\* makes its controller, timer and counters and enters stringify(o).
StartOverlapping ==
  /\ variant = "serializer"
  /\ pc = "susp"
  /\ other.pc = "none"
  /\ \E o \in OverlapInputs(obj) :
       /\ obj' = o
       /\ stack' = <<Frame("visit", o)>>
  /\ other' = ThisCall(1)
  /\ pc' = "run"
  /\ visited' = NewWeakSet(visited)
  /\ aborted' = FALSE
  /\ timerPending' = TRUE
  /\ startTime' = now
  /\ lastYield' = now
  /\ operations' = 0
  /\ sinceYield' = 0
  /\ outcome' = "none"
  /\ result' = ""
  /\ error' = ""
  /\ settledAt' = 0
  /\ UNCHANGED <<options, variant, timeoutMs, yieldEveryMs, yieldEveryOps, now, written,
                 monitor, stats>>

\* The event loop turns to the other call: its continuation or its timer is
\* the next task.  No call is running then.
ServeOther ==
  /\ other.pc # "none"
  /\ EventLoopTurn(pc)
  /\ other.pc = "susp" \/ other.timerPending
  /\ other' = ThisCall(3 - other.call)
  /\ obj' = other.obj
  /\ pc' = other.pc
  /\ stack' = other.stack
  /\ visited' = other.visited
  /\ aborted' = other.aborted
  /\ timerPending' = other.timerPending
  /\ startTime' = other.startTime
  /\ lastYield' = other.lastYield
  /\ operations' = other.operations
  /\ outcome' = other.outcome
  /\ result' = other.result
  /\ error' = other.error
  /\ settledAt' = other.settledAt
  /\ sinceYield' = other.sinceYield
  /\ UNCHANGED <<options, variant, timeoutMs, yieldEveryMs, yieldEveryOps, now, written,
                 monitor, stats>>

-----------------------------------------------------------------------------
(* Sequences of start() and stop() on one EventLoopMonitor around a call.  *)

\* start() while this.interval holds a timer: the fields are reset and
\* this.interval is overwritten with a new timer; the old timer is not
\* cleared.
MonitorStartAgain ==
  /\ pc = "idle"
  /\ monitor.interval
  /\ monitor.leaked = 0
  /\ monitor' = [NewMonitor(now) EXCEPT !.interval = TRUE,
                                        !.due = now + MonitorPeriod,
                                        !.leaked = 1,
                                        !.leakedDue = monitor.due]
  /\ UNCHANGED <<other, options, variant, obj, timeoutMs, yieldEveryMs, yieldEveryOps, pc, stack,
                 visited, written, aborted, timerPending, now, startTime, lastYield,
                 operations, outcome, result, error, settledAt, sinceYield, stats>>

\* The callback of a timer that this.interval names no more: the same
\* callback, on the same monitor.
LeakedTick ==
  /\ monitor.leaked > 0
  /\ now >= monitor.leakedDue
  /\ EventLoopTurn(pc)
  /\ LET elapsed == now - monitor.lastCheck
     IN monitor' = [monitor EXCEPT
                      !.blocks = IF IsBlock(elapsed, BlockThreshold)
                                 THEN Append(@, elapsed) ELSE @,
                      !.lastCheck = now,
                      !.intervals = @ + 1,
                      !.leakedDue = now + MonitorPeriod]
  /\ UNCHANGED <<other, options, variant, obj, timeoutMs, yieldEveryMs, yieldEveryOps, pc, stack,
                 visited, written, aborted, timerPending, now, startTime, lastYield,
                 operations, outcome, result, error, settledAt, sinceYield, stats>>

\* stop() once more: this.interval is null, the statistics are returned.
MonitorStopAgain ==
  /\ pc \in {"returned", "threw"}
  /\ ~monitor.interval
  /\ Len(stats) = 1
  /\ stats' = Append(stats, [intervals |-> monitor.intervals,
                             maxBlock |-> MaxOf(0, monitor.blocks),
                             blockCount |-> Len(monitor.blocks),
                             blocks |-> monitor.blocks])
  /\ UNCHANGED <<other, options, variant, obj, timeoutMs, yieldEveryMs, yieldEveryOps, pc, stack,
                 visited, written, aborted, timerPending, now, startTime, lastYield,
                 operations, outcome, result, error, settledAt, sinceYield, monitor>>

\* Time passes after the call as well, while a timer is alive.
TickAfter ==
  /\ now < MaxTime
  /\ pc \in {"returned", "threw"}
  /\ monitor.leaked > 0
  /\ now' = now + 1
  /\ UNCHANGED <<other, options, variant, obj, timeoutMs, yieldEveryMs, yieldEveryOps, pc, stack,
                 visited, written, aborted, timerPending, startTime, lastYield, operations,
                 outcome, result, error, settledAt, sinceYield, monitor, stats>>

InitMonitor == Init /\ variant \in {"bench", "serializer"}

NextMonitor ==
  \/ Start \/ Checkpoint \/ Resume \/ Advance \/ TimerFire \/ Tick
  \/ MonitorStart \/ MonitorStartAgain \/ MonitorTick \/ LeakedTick
  \/ MonitorStop \/ MonitorStopAgain \/ TickAfter

SpecMonitor == InitMonitor /\ [][NextMonitor]_vars

InitOverlap == Init /\ variant = "serializer"

NextOverlap ==
  \/ Start \/ Checkpoint \/ Resume \/ Advance \/ TimerFire \/ Tick
  \/ StartOverlapping \/ ServeOther

SpecOverlap == InitOverlap /\ [][NextOverlap]_vars


-----------------------------------------------------------------------------
(* stringify read as a plain recursive function: the text a call returns   *)
(* when no checkpoint fails, and the visited set it leaves behind.         *)

RECURSIVE ChunksFrom(_, _)
ChunksFrom(s, i) ==
  IF i >= Len(s) THEN ""
  ELSE EscapeFrom(SubSeq(s, i + 1, Min(i + ChunkSize, Len(s))), 1) \o ChunksFrom(s, i + ChunkSize)

\* The chunk loop of asyncStringify: each chunk is escaped on its own.
ChunkedString(s) == "\"" \o ChunksFrom(s, 0) \o "\""

RECURSIVE StringifyValue(_, _, _, _)
RECURSIVE StringifyItems(_, _, _, _, _, _)
RECURSIVE StringifyEntries(_, _, _, _, _, _)
StringifyValue(var, h, v, vis) ==
  IF v.t \in {"null", "undefined"} THEN [text |-> "null", vis |-> vis]
  ELSE IF ~IsComposite(v)
  THEN [text |-> IF IsChunked(var, v) THEN ChunkedString(v.s) ELSE JsonPrimitive(v),
        vis |-> vis]
  ELSE IF HasVisited(var) /\ v.id \in vis THEN [text |-> Sentinel, vis |-> vis]
  ELSE LET vis1 == VisitedAfter(var, h, v, vis)
           o == h[v.id]
       IN IF var = "serializer" /\ o.t = "date"
          THEN [text |-> "\"" \o o.iso \o "\"", vis |-> vis1]
          ELSE IF o.t = "arr"
          THEN LET r == StringifyItems(var, h, o.items, 1, vis1, <<>>)
               IN [text |-> "[" \o Join(r.parts) \o "]", vis |-> r.vis]
          ELSE LET r == StringifyEntries(var, h, o.entries, 1, vis1, <<>>)
               IN [text |-> "{" \o Join(r.parts) \o "}", vis |-> r.vis]

StringifyItems(var, h, items, i, vis, parts) ==
  IF i > Len(items) THEN [parts |-> parts, vis |-> vis]
  ELSE LET r == StringifyValue(var, h, items[i], vis)
       IN StringifyItems(var, h, items, i + 1, r.vis,
                         IF var = "serializer" /\ r.text = NoText THEN parts
                         ELSE Append(parts, r.text))

StringifyEntries(var, h, entries, i, vis, parts) ==
  IF i > Len(entries) THEN [parts |-> parts, vis |-> vis]
  ELSE IF IsSkipped(entries[i][2])
  THEN StringifyEntries(var, h, entries, i + 1, vis, parts)
  ELSE LET r == StringifyValue(var, h, entries[i][2], vis)
       IN StringifyEntries(var, h, entries, i + 1, r.vis,
                           IF var = "serializer" /\ r.text = NoText THEN parts
                           ELSE Append(parts, QuoteString(entries[i][1]) \o ":"
                                   \o (IF r.text = NoText THEN "undefined" ELSE r.text)))

EngineText(var, h, v) == StringifyValue(var, h, v, {}).text

-----------------------------------------------------------------------------
(* The output grammar, as JSON.parse accepts it: a recognizer over the     *)
(* characters of a text.  Each Skip operator returns the index after the   *)
(* construct that starts at index i, or 0 when there is none.              *)

Ch(s, i) == IF i >= 1 /\ i <= Len(s) THEN SubSeq(s, i, i) ELSE ""

Digits == {"0", "1", "2", "3", "4", "5", "6", "7", "8", "9"}

StartsWith(s, i, w) == i + Len(w) - 1 <= Len(s) /\ SubSeq(s, i, i + Len(w) - 1) = w

RECURSIVE SkipDigits(_, _)
SkipDigits(s, i) == IF Ch(s, i) \in Digits THEN SkipDigits(s, i + 1) ELSE i

\* The characters of a string up to and including its closing quote.
RECURSIVE SkipStringBody(_, _)
SkipStringBody(s, i) ==
  CASE Ch(s, i) = "" -> 0
    [] Ch(s, i) = "\"" -> i + 1
    [] Ch(s, i) = "\\" -> IF Ch(s, i + 1) = "" THEN 0 ELSE SkipStringBody(s, i + 2)
    [] OTHER -> SkipStringBody(s, i + 1)

RECURSIVE SkipValue(_, _)
RECURSIVE SkipElements(_, _)
RECURSIVE SkipMembers(_, _)
SkipValue(s, i) ==
  CASE StartsWith(s, i, "null") -> i + 4
    [] StartsWith(s, i, "true") -> i + 4
    [] StartsWith(s, i, "false") -> i + 5
    [] Ch(s, i) = "\"" -> SkipStringBody(s, i + 1)
    [] Ch(s, i) \in Digits -> SkipDigits(s, i)
    [] Ch(s, i) = "-" -> IF Ch(s, i + 1) \in Digits THEN SkipDigits(s, i + 1) ELSE 0
    [] Ch(s, i) = "[" -> IF Ch(s, i + 1) = "]" THEN i + 2 ELSE SkipElements(s, i + 1)
    [] Ch(s, i) = "{" -> IF Ch(s, i + 1) = "}" THEN i + 2 ELSE SkipMembers(s, i + 1)
    [] OTHER -> 0

\* value (',' value)* ']'
SkipElements(s, i) ==
  LET j == SkipValue(s, i)
  IN CASE j = 0 -> 0
       [] Ch(s, j) = "," -> SkipElements(s, j + 1)
       [] Ch(s, j) = "]" -> j + 1
       [] OTHER -> 0

\* string ':' value (',' string ':' value)* '}'
SkipMembers(s, i) ==
  LET k == IF Ch(s, i) = "\"" THEN SkipStringBody(s, i + 1) ELSE 0
      j == IF k = 0 \/ Ch(s, k) # ":" THEN 0 ELSE SkipValue(s, k + 1)
  IN CASE j = 0 -> 0
       [] Ch(s, j) = "," -> SkipMembers(s, j + 1)
       [] Ch(s, j) = "}" -> j + 1
       [] OTHER -> 0

\* The whole text is one value.
ValidJSON(s) == SkipValue(s, 1) = Len(s) + 1

-----------------------------------------------------------------------------
(* Classes of inputs.                                                      *)

\* The values of claim C4: null, booleans, numbers, strings, arrays of such
\* values, objects whose property values may also be undefined or functions.
RECURSIVE PlainValue(_, _, _, _)
PlainValue(h, v, inObject, path) ==
  IF ~IsComposite(v) THEN (IsSkipped(v) => inObject)
  ELSE /\ v.id \notin path
       /\ h[v.id].t # "date"
       /\ \A i \in DOMAIN Children(h[v.id]) :
            PlainValue(h, Children(h[v.id])[i], h[v.id].t = "obj", path \cup {v.id})

RECURSIVE HasDate(_, _, _)
HasDate(h, v, path) ==
  /\ IsComposite(v)
  /\ v.id \notin path
  /\ \/ h[v.id].t = "date"
     \/ \E i \in DOMAIN Children(h[v.id]) :
          HasDate(h, Children(h[v.id])[i], path \cup {v.id})

Deadline == startTime + timeoutMs

\* The composites whose loop is running: the active recursion path.
ActivePath == {stack[i].v.id : i \in {j \in DOMAIN stack : stack[j].k \in {"arr", "obj"}}}

\* A step that is a checkpoint up to its suspension.
IsCheckpointStep == pc = "run" /\ operations' # operations


-----------------------------------------------------------------------------
(* The claims.                                                             *)

\* C1 (as stated): a call of asyncStringify or AsyncJSONSerializer.serialize
\* that has not completed when its timeout T elapses fails with the
\* deadline error no later than T plus one yield interval: text is returned
\* by T only, and a failure comes by T + yieldEveryMs.
C1_BoundedInterruption ==
  variant \in {"bench", "serializer"} =>
    /\ outcome = "text" => settledAt <= Deadline
    /\ outcome = "error" => settledAt <= Deadline + yieldEveryMs

\* C2 (as stated): in asyncStringify every checkpoint at which more than
\* yieldEveryMs has elapsed since the last yield, or at which more than
\* CHECK_INTERVAL operations have been counted since the last yield,
\* suspends before any further value is visited.
C2_SpanBoundedByThresholds ==
  [][(variant = "bench" /\ IsCheckpointStep
      /\ (now - lastYield > yieldEveryMs \/ sinceYield + 1 > CHECK_INTERVAL))
     => pc' = "susp"]_vars

C4_TreeEquivalence ==
  (/\ variant = "bench"
   /\ outcome = "text"
   /\ TreeShaped(TheHeap, obj)
   /\ PlainValue(TheHeap, obj, FALSE, {}))
  => result = JSONstringify(TheHeap, obj)

\* C5 (as stated): for every cycle-free value, shared composites, functions
\* and dates included, asyncStringify and AsyncJSONSerializer.serialize
\* return the text of JSON.stringify.
C5_Equivalence ==
  (/\ variant \in {"bench", "serializer"}
   /\ outcome = "text"
   /\ ~Cyclic(TheHeap, obj))
  => result = JSONstringify(TheHeap, obj)

\* C6: on an input with a cycle, asyncStringify and the serializer never
\* re-enter a composite that is on the active path, fail only by the
\* deadline, and return the text that has the sentinel "[Circular]" at each
\* cyclic edge and the serialization of everything else.
C6_CycleSafety ==
  (variant \in {"bench", "serializer"} /\ Cyclic(TheHeap, obj)) =>
    /\ \A i, j \in DOMAIN stack :
         (i < j /\ stack[i].k \in {"arr", "obj"} /\ stack[j].k \in {"arr", "obj"})
         => stack[i].v # stack[j].v
    /\ pc = "threw" => aborted
    /\ outcome = "text" => result = ReferenceValue(TheHeap, obj, {}, Sentinel)

\* C6 witness: a call on the self-referencing object has returned its text.
C6_Witness ==
  /\ variant = "bench"
  /\ obj = Ref(7)
  /\ outcome = "text"
  /\ result = "{\"n\":1,\"self\":\"[Circular]\"}"

\* C7 (as stated): an array or object that occurs at two positions neither
\* of which is an ancestor of the other is serialized in full at both, so
\* the text of an input with a shared sub-tree is the text of JSON.stringify.
C7_SharedSubtreeInFull ==
  (/\ variant \in {"bench", "serializer", "migration"}
   /\ outcome = "text"
   /\ ~Cyclic(TheHeap, obj)
   /\ ~TreeShaped(TheHeap, obj)
   /\ ~HasDate(TheHeap, obj, {}))
  => result = JSONstringify(TheHeap, obj)

\* C8 (as stated): at every point of a call of asyncStringify or the
\* serializer the tracked identities are exactly the composites on the active
\* recursion path, hence none once the call has returned or failed.
C8_StackDiscipline ==
  (variant \in {"bench", "serializer"} /\ pc # "idle") => visited = ActivePath

\* C9 (as stated): in each of the four async engines, a checkpoint that resumes from its
\* suspension with the abort flag set fails with the deadline error before
\* any further value is visited.
C9_AbortCheckedOnResume ==
  [][(/\ variant \in {"bench", "serializer", "migration", "demo"}
      /\ pc = "susp" /\ aborted /\ pc' # "susp") => pc' = "threw"]_vars

\* C10: a call of asyncStringify or the serializer settles when its
\* traversal ends and at most once; a failure leaves no frame and exposes no
\* text; a success is the text of the whole input.
C10_AllOrNothing ==
  /\ [](variant \in {"bench", "serializer"} =>
          /\ outcome = "none" <=> pc \in {"idle", "run", "susp"}
          /\ outcome = "error" => (pc = "threw" /\ stack = <<>> /\ result = "")
          /\ outcome = "text" => (/\ pc = "returned"
                                  /\ stack = <<>>
                                  /\ result = EngineText(variant, TheHeap, obj)))
  /\ [][outcome # "none" =>
          (outcome' = outcome /\ result' = result /\ settledAt' = settledAt)]_vars

\* C10 witness: a call has failed after entering at least two composites.
C10_Witness ==
  /\ variant \in {"bench", "serializer"}
  /\ outcome = "error"
  /\ Cardinality(visited) >= 2


\* C11: in asyncStringify, AsyncJSONSerializer.serialize and
\* serializeWithTimeout the deadline timer is cleared on the successful
\* return and on the failure, so that once the call has settled no timer is
\* pending and the abort flag is never written again.
C11_TimerCancelledOnExit ==
  /\ [](variant \in {"bench", "serializer", "demo"} =>
          (pc \in {"returned", "threw"} => (~timerPending /\ outcome # "none")))
  /\ [][(variant \in {"bench", "serializer", "demo"} /\ outcome # "none")
        => (aborted' = aborted /\ timerPending' = timerPending)]_vars

\* C11 witness: a call has returned its text before its deadline, when the
\* timer would otherwise still be pending.
C11_Witness ==
  /\ variant \in {"bench", "serializer", "demo"}
  /\ outcome = "text"
  /\ now < Deadline
  /\ ~timerPending


\* C12 (as stated): in AsyncImplementation.stringifyAsync and
\* asyncStringifyYieldable, once the call has returned its text the timeout
\* callback never runs: no later step sets the abort flag.
C12_RaceTimerStopped ==
  [][(variant \in {"migration", "yieldable"} /\ outcome = "text")
     => aborted' = aborted]_vars


\* C13: the abort flag of a call is false when the call starts and, once
\* true, stays true at every later step of the call.
C13_AbortedMonotonic ==
  /\ [](pc = "idle" => ~aborted)
  /\ [][(pc = "idle" => ~aborted') /\ (aborted => aborted')]_vars

\* C13 witness: the traversal is running again after the timer's callback
\* has set the flag during a suspension.
C13_Witness ==
  /\ aborted
  /\ pc = "run"
  /\ variant \in {"serializer", "demo"}


\* C14 (as stated): for every string, below and above the chunk threshold,
\* the text asyncStringify returns is the string escaped in one pass, also
\* when a surrogate pair lies across a chunk boundary.
C14_ChunkedEscapingExact ==
  (variant = "bench" /\ obj.t = "string" /\ outcome = "text")
  => result = QuoteString(obj.s)


\* C15: for a fixed input the value asyncStringify or the serializer returns
\* is the same whichever checkpoints suspend and for however long: it is the
\* text of the traversal without suspensions, whose children are joined in
\* index order and in key insertion order.
C15_ScheduleIndependent ==
  (variant \in {"bench", "serializer"} /\ outcome \in {"text", "undefined"})
  => result = StringifyValue(variant, TheHeap, obj, {}).text

\* C15 witness: the object holding an array has been serialized by a call
\* of asyncStringify that was suspended (asyncStringify suspends on a
\* CHECK_INTERVAL-th checkpoint only, hence below the root).
C15_Witness ==
  /\ variant = "bench"
  /\ obj = Ref(1)
  /\ outcome = "text"
  /\ lastYield > startTime
  /\ visited = {1, 2}
  /\ result = "{\"a\":[1,true,null],\"b\":\"x\\\"\"}"


\* C16: in asyncStringify and the serializer the traversal is suspended at
\* checkpoints only; the deadline timer's callback and the monitor's tick
\* run only while the traversal is not running and leave the engine's state
\* alone; the abort flag is written by the timer's callback only and keeps
\* its value while the traversal runs; the yield counters are written by
\* the engine only.
C16_SuspensionOnlyAtCheckpoints ==
  [][(variant \in {"bench", "serializer"} =>
       /\ (pc = "run" /\ pc' = "susp") => IsCheckpointStep
       /\ (aborted' # aborted \/ monitor'.intervals # monitor.intervals)
            => /\ pc # "run"
               /\ UNCHANGED <<pc, stack, visited, operations, lastYield, sinceYield>>
       /\ aborted' # aborted => (aborted' /\ timerPending /\ ~timerPending'
                                  /\ now >= Deadline)
       /\ pc = "run" => (aborted' = aborted /\ monitor' = monitor)
       /\ (operations' # operations \/ lastYield' # lastYield)
            => (pc \in {"idle", "run", "susp"} /\ pc' # "idle"
                /\ aborted' = aborted /\ monitor' = monitor))]_vars

\* C16 witness: the timer's callback and a tick of the monitor have run
\* during a suspension, and the traversal is running again.
C16_Witness ==
  /\ variant = "serializer"
  /\ pc = "run"
  /\ aborted
  /\ monitor.intervals > 0
  /\ lastYield > startTime


\* C17 (as stated): while asyncStringify or the serializer serializes an
\* input that needs more checkpoints than the operation threshold (the
\* object holding an array: six values), a checkpoint reached when a tick of
\* the periodic probe is due and more than one yield interval has passed
\* since the last yield hands the thread over: it suspends, or ends the call.
C17_NonStarvation ==
  [][(/\ variant \in {"bench", "serializer"}
      /\ obj = Ref(1)
      /\ IsCheckpointStep
      /\ monitor.interval
      /\ now >= monitor.due
      /\ now - lastYield > yieldEveryMs)
     => pc' \in {"susp", "threw"}]_vars


\* C18 (as stated): a call of runWithFiber(fiberStringify),
\* asyncStringifyYieldable or asyncStringify whose serialization has not
\* completed when the timeout elapses rejects with the timeout error
\* instead of resolving with text: no call resolves with text after its
\* deadline.
C18_AllInterruptible ==
  (variant \in {"fiber", "yieldable", "bench"} /\ settledAt > Deadline)
  => outcome # "text"


\* C19: between start() and stop() each tick of the EventLoopMonitor adds one
\* to the tick count, records the gap since the previous sample as a block
\* if and only if the gap is greater than the threshold, and makes the
\* current time the previous sample time; stop() returns the tick count, the
\* number of blocks, the largest block (0 when there is none) and the blocks
\* in the order recorded.
C19_MonitorSampling ==
  /\ [][monitor'.intervals # monitor.intervals /\ monitor.interval =>
          LET gap == now - monitor.lastCheck IN
          /\ monitor'.intervals = monitor.intervals + 1
          /\ monitor'.blocks = IF gap > BlockThreshold
                               THEN monitor.blocks \o <<gap>> ELSE monitor.blocks
          /\ monitor'.lastCheck = now
          /\ monitor'.interval]_vars
  /\ [][stats' # stats =>
          /\ ~monitor'.interval
          /\ Len(stats') = 1
          /\ stats'[1].intervals = monitor.intervals
          /\ stats'[1].blockCount = Len(monitor.blocks)
          /\ stats'[1].blocks = monitor.blocks
          /\ \A k \in DOMAIN monitor.blocks : stats'[1].maxBlock >= monitor.blocks[k]
          /\ IF monitor.blocks = <<>> THEN stats'[1].maxBlock = 0
             ELSE \E k \in DOMAIN monitor.blocks : stats'[1].maxBlock = monitor.blocks[k]]_vars
  /\ [][~monitor.interval /\ monitor'.interval =>
          (monitor'.intervals = 0 /\ monitor'.blocks = <<>> /\ monitor'.lastCheck = now)]_vars

\* C19 witness: stop() has returned after ticks of which some, but not all,
\* recorded a block.
C19_Witness ==
  /\ stats # <<>>
  /\ stats[1].blockCount >= 1
  /\ stats[1].intervals > stats[1].blockCount
  /\ stats[1].maxBlock > BlockThreshold


\* C20 (as stated): for every input of the supported values, arrays holding
\* functions or undefined and a function at the root included, a successful
\* call of asyncStringify or the serializer returns one text that is valid
\* JSON: never a value that is not text, never an empty slot.
C20_ValidOutput ==
  (variant \in {"bench", "serializer"} /\ outcome \notin {"none", "error"})
  => (outcome = "text" /\ ValidJSON(result))


\* C21 (as stated): a date at any position of the input, also one that occurs
\* at two positions, is emitted by asyncStringify and by the serializer as
\* the quoted date text the reference serializer emits.
C21_DatesAsText ==
  (/\ variant \in {"bench", "serializer"}
   /\ HasDate(TheHeap, obj, {})
   /\ outcome = "text")
  => result = JSONstringify(TheHeap, obj)

\* C22 (as stated): every deadline failure of asyncStringify and of the
\* serializer carries the time that has actually elapsed since the call
\* started, not merely the configured timeout: its message names that time.
C22_FailureCarriesElapsed ==
  (variant \in {"bench", "serializer"} /\ outcome = "error")
  => \E i \in 1..Len(error) :
       StartsWith(error, i, ToString(settledAt - startTime) \o "ms")

\* C23: the engine only reads its input: at every point of a call of
\* asyncStringify or the serializer, and after it has returned or failed,
\* every composite of the input has the keys, elements and property values
\* it had before the call.
C23_InputUnchanged ==
  variant \in {"bench", "serializer"}
  => \A id \in DOMAIN TheHeap : HeapNow(written)[id] = TheHeap[id]

\* C23 witness: a call on the input with a cycle through two composites has
\* failed by its deadline after entering both.
C23_Witness ==
  /\ variant \in {"bench", "serializer"}
  /\ obj = Ref(8)
  /\ outcome = "error"
  /\ visited = {8, 9}

\* C24 (as stated): asyncStringify on the object holding an array of three
\* numbers and a string of twice the chunk threshold, with the default
\* timeout, returns the text of the reference serializer having suspended
\* at least once during the call (callCount is never reset, so the
\* checkpoints passed since the last suspension are fewer than callCount).
C24_LongStringSuspends ==
  (/\ variant = "bench"
   /\ obj = Ref(12)
   /\ timeoutMs = DefaultTimeoutMs
   /\ outcome = "text")
  => /\ result = JSONstringify(TheHeap, obj)
     /\ sinceYield < operations

\* C25 (as stated): while asyncStringify escapes a long string, at most
\* ChunksPerYield (10) chunks are escaped between two consecutive
\* checkpoints, from the first chunk onwards.
C25_ChunkCheckpoints ==
  variant = "bench" =>
    \A k \in DOMAIN stack : stack[k].k = "str" => stack[k].count <= ChunksPerYield

\* C26 (as stated): a call of the serializer or of serializeWithTimeout whose
\* abort flag has been set before it settled fails with the abort error:
\* it never returns text with the flag set, also when the flag was set
\* during the last suspension of the traversal.
C26_NoTextAfterAbort ==
  (variant \in {"serializer", "demo"} /\ outcome = "text") => ~aborted

\* C27: a call of asyncStringify never resolves once its abort flag is true:
\* the flag is set during a suspension only and is tested right after the
\* resume, and a checkpoint that does not suspend tests it too.
C27_BenchNoTextAfterAbort ==
  /\ [](variant = "bench" /\ outcome \in {"text", "undefined"} => ~aborted)
  /\ [][(variant = "bench" /\ aborted /\ pc = "susp" /\ pc' # "susp")
        => (pc' = "threw" /\ outcome' = "error")]_vars

\* C27 witness: the timer's callback ran during a suspension of asyncStringify
\* and the call failed on the resume.
C27_Witness ==
  /\ variant = "bench"
  /\ aborted
  /\ outcome = "error"
  /\ lastYield = settledAt
  /\ stack = <<>>


\* C28: two overlapping calls of serialize on one serializer do not
\* interfere: a call's abort flag is set only once its own deadline has
\* passed, and a call that resolves resolves with the text it returns when
\* it is the only call.
C28_PerCallIsolation ==
  other.pc # "none" =>
    /\ aborted => now >= startTime + timeoutMs
    /\ other.aborted => now >= other.startTime + timeoutMs
    /\ outcome \in {"text", "undefined"} => result = EngineText(variant, TheHeap, obj)
    /\ other.outcome \in {"text", "undefined"}
         => other.result = EngineText(variant, TheHeap, other.obj)

\* C28 witness: the two calls were given the same object; the deadline of
\* one has fired and that call has failed, and the other has returned the
\* object's text without having been aborted.
C28_Witness ==
  /\ other.pc = "threw"
  /\ other.aborted
  /\ obj = other.obj
  /\ obj = Ref(1)
  /\ outcome = "text"
  /\ ~aborted
  /\ result = "{\"a\":[1,true,null],\"b\":\"x\\\"\"}"


\* C29: under the fair scheduler every call of asyncStringify and of
\* serialize settles, whatever the input (cyclic or not) and the timeout,
\* and a suspended traversal is eventually resumed.
C29_Termination ==
  /\ (variant \in {"bench", "serializer"} /\ pc \in {"run", "susp"})
       ~> (outcome # "none" /\ pc \in {"returned", "threw"})
  /\ (variant \in {"bench", "serializer"} /\ pc = "susp") ~> (pc # "susp")

\* C29 witness: a call of serialize with a cyclic object was suspended, was
\* resumed later and has returned.
C29_Witness ==
  /\ variant = "serializer"
  /\ Cyclic(TheHeap, obj)
  /\ lastYield > startTime
  /\ pc = "returned"
  /\ outcome = "text"


\* C30: what the fiber implementation's incremental_json_stringify has
\* returned is the text AsyncImplementation.incremental_json_stringify
\* resolves to for the same input, also when optional_pause has paused.
C30_FiberEquivalent ==
  (variant = "legacy" /\ outcome # "none")
  => result = EngineText("migration", TheHeap, obj)


\* C31: once runWithFiber has rejected with its timeout error the
\* serialization does nothing more: the fiber is not resumed and the
\* replacer is not called (asyncStringifyYieldable's library is not part of
\* the repository; its callback is LibraryCallback).
C31_CleanInterruption ==
  [][(/\ variant = "fiber"
      /\ outcome = "error"
      /\ error = TimeoutMessage(variant, timeoutMs))
     => (pc' = pc /\ stack' = stack /\ operations' = operations)]_vars


\* C32: the promise of runWithFiber settles once.  It is resolved with fn's
\* result or rejected with fn's error only while the timeout callback has
\* not run; once the callback has run it is rejected with the timeout error,
\* and a fiber that finishes later leaves the promise as it is.
C32_SettlesOnce ==
  /\ [](variant = "fiber" =>
          /\ outcome \in {"text", "undefined"} => (~aborted /\ pc = "returned")
          /\ (outcome = "error" /\ error = CircularMessage) => (~aborted /\ pc = "threw")
          /\ aborted => (outcome = "error" /\ error = TimeoutMessage(variant, timeoutMs))
          /\ pc \in {"returned", "threw"} => outcome # "none")
  /\ [][(variant = "fiber" /\ outcome # "none")
        => (/\ outcome' = outcome
            /\ result' = result
            /\ error' = error
            /\ settledAt' = settledAt)]_vars

\* C32 witness: the timeout callback has run while the fiber was waiting,
\* and the fiber has finished the serialization after that.
C32_Witness ==
  /\ variant = "fiber"
  /\ pc = "returned"
  /\ aborted
  /\ outcome = "error"
  /\ error = "Fiber timeout after 1ms"
  /\ result = ""


\* C33: whatever the sequence of start() and stop(), start() twice in a row
\* included: after stop() no tick changes the tick count, the blocks or the
\* last sample time, and a second stop() returns what the first returned.
C33_StoppedMonitorIsQuiet ==
  /\ [](Len(stats) = 2 => stats[2] = stats[1])
  /\ [][(stats # <<>> /\ ~monitor.interval)
        => (/\ monitor'.intervals = monitor.intervals
            /\ monitor'.blocks = monitor.blocks
            /\ monitor'.lastCheck = monitor.lastCheck)]_vars


\* C34: in serialize the operation counter is 0 and lastYield is the current
\* time right after every resume; so the counter never exceeds
\* yieldEveryOps + 1, and no more than yieldEveryOps + 1 checkpoints pass
\* without a suspension.
C34_CounterResetAndBound ==
  /\ [](variant = "serializer" =>
          (operations <= yieldEveryOps + 1 /\ sinceYield <= yieldEveryOps + 1))
  /\ [][(variant = "serializer" /\ pc = "susp" /\ pc' # "susp")
        => (operations' = 0 /\ lastYield' = now)]_vars

\* C34 witness: a call of serialize with yieldEveryOps = 1 has just been
\* resumed, later than it started.
C34_Witness ==
  /\ variant = "serializer"
  /\ yieldEveryOps = 1
  /\ pc = "run"
  /\ operations = 0
  /\ sinceYield = 0
  /\ lastYield = now
  /\ lastYield > startTime


\* C35: the serializer takes timeoutMs, yieldEveryMs and yieldEveryOps from
\* the caller whenever the caller supplies them, 0 included, and the
\* defaults only for the options the caller omits.
C35_OptionsTaken ==
  variant = "serializer" =>
    /\ timeoutMs = IF "timeoutMs" \in DOMAIN options
                   THEN options.timeoutMs ELSE DefaultTimeoutMs
    /\ yieldEveryMs = IF "yieldEveryMs" \in DOMAIN options
                      THEN options.yieldEveryMs ELSE DefaultYieldEveryMs
    /\ yieldEveryOps = IF "yieldEveryOps" \in DOMAIN options
                       THEN options.yieldEveryOps ELSE DefaultYieldEveryOps

====
